---------------------------- MODULE Spec2Model ----------------------------
(***************************************************************************)
(* The ghack protocol client: src/client/client.py (Client, Handler,       *)
(* ConnectHandler, LoginResultHandler, GameHandler) and the entity store   *)
(* it notifies, src/game/game.py (Game).                                   *)
(*                                                                         *)
(* Python's None is the string "None" for the handler and entity names,    *)
(* and the empty set for Game.player (a set of at most one id).            *)
(* `log` and `raised` hold the outcome of the most recent call: the lines  *)
(* it wrote to stderr or to debug, and the exception that escaped it (or   *)
(* "none").  The caller of the client (not part of client.py) may go on    *)
(* calling after an exception, which includes the runs where it stops.     *)
(*                                                                         *)
(* Not modelled: the curses screen, the HUD, the health bar and the        *)
(* message area of game.py (redraw, draw_hud, draw_messages, add_message): *)
(* they paint the terminal from the store and change nothing below.        *)
(***************************************************************************)
EXTENDS Integers, Sequences, FiniteSets, TLC

VARIABLES
    started,    \* Client.run() has been called
    conn,       \* Client.conn: "none" (None), "open" or "closed"
    handler,    \* Client.handler: the class of the active handler, or None
    connected,  \* Client.connected
    out,        \* the messages written to the transport, in order
    direction,  \* Game.direction
    entities,   \* Game.entities: id -> Entity
    player,     \* Game.player: {} is None, {uid} is uid
    kills,      \* Game.kills
    log,        \* the lines the most recent call wrote to stderr or debug
    raised,     \* the exception that escaped the most recent call, or "none"
    call        \* a call of Handler.handle_msg taken alone: the handler's
                \* handlers and expected_types, the message type, the route taken

vars == <<started, conn, handler, connected, out, direction, entities,
          player, kills, log, raised, call>>

session == <<started, conn, handler, connected, out>>
store == <<entities, player, kills>>

---------------------------------------------------------------------------
(* Bounds of the model *)
MaxOut == 3
MaxKills == 2

(* Inputs *)
Versions == {1, 2}
Ids == {7, 8}
Names == {"", "orc"}
Keys == {"Health"}
Values == {0, 5}
Dirs == {<<0, -1>>, <<1, 1>>}

---------------------------------------------------------------------------
(* Program constants *)
None == "None"
version == 1
PlayerName == "hero"
QUIT == "QUIT"
NoError == <<"", "none">>
Pending == <<"pending", "", "">>
NoCall == [handlers |-> <<>>, expected_types |-> {}, type |-> "", route |-> Pending]

Vector0 == <<0, 0>>
len_squared(v) == v[1] * v[1] + v[2] * v[2]

---------------------------------------------------------------------------
(* Messages.  A message is [type, body]; body is the variant of its type. *)
connect(v) == [type |-> "CONNECT", body |-> [version |-> v]]
login(n) == [type |-> "LOGIN", body |-> [name |-> n]]
move(d) == [type |-> "MOVE", body |-> [direction |-> d]]
disconnect(r, s) ==
    [type |-> "DISCONNECT", body |-> [reason |-> r, reason_str |-> s]]

unwrap(msg) == msg.body
unwrap_state(v) == v.value

InMsgs ==
    {connect(v) : v \in Versions}
    \cup {[type |-> "LOGINRESULT", body |-> [succeeded |-> s]] : s \in BOOLEAN}
    \cup {[type |-> "ADDENTITY", body |-> [id |-> i, name |-> n]] :
            i \in Ids, n \in Names}
    \cup {[type |-> "REMOVEENTITY", body |-> [id |-> i, name |-> n]] :
            i \in Ids, n \in Names}
    \cup {[type |-> "UPDATESTATE",
           body |-> [id |-> i, state_id |-> k,
                     value |-> [kind |-> "int", value |-> x]]] :
            i \in Ids, k \in Keys, x \in Values}
    \cup {[type |-> "ASSIGNCONTROL", body |-> [uid |-> i, revoked |-> r]] :
            i \in Ids, r \in BOOLEAN}
    \cup {[type |-> "ENTITYDEATH",
           body |-> [uid |-> i, name |-> "orc",
                     killer_uid |-> k, killer_name |-> "hero"]] :
            i \in Ids, k \in Ids}
    \cup {[type |-> "COMBATHIT",
           body |-> [attacker_uid |-> 7, attacker_name |-> "hero",
                     victim_uid |-> 8, victim_name |-> "orc", damage |-> 1]]}
    \cup {disconnect(QUIT, "Server shutdown")}

---------------------------------------------------------------------------
(* objects.Entity *)
Entity(id, name) == [id |-> id, name |-> name, states |-> <<>>]

set_state(e, state_id, value) ==
    [e EXCEPT !.states =
        [k \in DOMAIN e.states \cup {state_id} |->
            IF k = state_id THEN value ELSE e.states[k]]]

---------------------------------------------------------------------------
(* Game: the entity store *)
Game_move(x, y) ==
    /\ direction' = <<x, y>>
    /\ log' = {}
    /\ raised' = NoError
    /\ UNCHANGED <<session, store, call>>

(* Mutant: an id that is already tracked keeps its entity *)
Game_add_entity_KeepsExisting(id, name) ==
    /\ log' = IF id \in DOMAIN entities THEN {"added twice"} ELSE {}
    /\ entities' = [i \in DOMAIN entities \cup {id} |->
                      IF i \in DOMAIN entities THEN entities[i]
                      ELSE Entity(id, name)]
    /\ UNCHANGED <<player, kills>>

Game_add_entity(id, name) ==
    /\ log' = IF id \in DOMAIN entities THEN {"added twice"} ELSE {}
    /\ entities' = [i \in DOMAIN entities \cup {id} |->
                      IF i = id THEN Entity(id, name) ELSE entities[i]]
    /\ UNCHANGED <<player, kills>>

Game_remove_entity(id, name) ==
    IF id \notin DOMAIN entities
    THEN /\ log' = {"removed without being added"}
         /\ UNCHANGED <<entities, player, kills>>
    ELSE /\ entities' = [i \in DOMAIN entities \ {id} |-> entities[i]]
         /\ log' = {}
         /\ UNCHANGED <<player, kills>>

(* Mutant: an update of an untracked id creates the entity *)
Game_update_entity_Upsert(id, state_id, value) ==
    /\ log' = {}
    /\ entities' = [i \in DOMAIN entities \cup {id} |->
                      IF i = id
                      THEN set_state(IF id \in DOMAIN entities THEN entities[id]
                                     ELSE Entity(id, None), state_id, value)
                      ELSE entities[i]]
    /\ UNCHANGED <<player, kills>>

Game_update_entity(id, state_id, value) ==
    IF id \notin DOMAIN entities
    THEN /\ log' = {"updated without being added"}
         /\ UNCHANGED <<entities, player, kills>>
    ELSE /\ entities' = [entities EXCEPT ![id] = set_state(@, state_id, value)]
         /\ log' = {}
         /\ UNCHANGED <<player, kills>>

(* Mutant: the test of revoked is the wrong way round *)
Game_assign_control_Inverted(uid, revoked) ==
    /\ player' = IF revoked THEN {uid} ELSE {}
    /\ log' = {}
    /\ UNCHANGED <<entities, kills>>

Game_assign_control(uid, revoked) ==
    /\ player' = IF ~revoked THEN {uid} ELSE {}
    /\ log' = {}
    /\ UNCHANGED <<entities, kills>>

(* Mutant: the victim, not the killer, is compared with the player *)
Game_entity_death_ByVictim(uid, name, kuid, kname) ==
    /\ IF player = {uid}
       THEN /\ kills < MaxKills
            /\ kills' = kills + 1
       ELSE kills' = kills
    /\ log' = {}
    /\ UNCHANGED <<entities, player>>

Game_entity_death(uid, name, kuid, kname) ==
    /\ IF player = {kuid}
       THEN /\ kills < MaxKills
            /\ kills' = kills + 1
       ELSE kills' = kills
    /\ log' = {}
    /\ UNCHANGED <<entities, player>>

Game_combat_hit(auid, aname, vuid, vname, damage) ==
    /\ log' = {}
    /\ UNCHANGED <<entities, player, kills>>

---------------------------------------------------------------------------
(* Connection (netclient): a write reaches the transport only while the    *)
(* connection is open; on a closed one it fails with ConnectionClosed.     *)
send_bytes(msg, site) ==
    IF conn = "open"
    THEN /\ Len(out) < MaxOut
         /\ out' = Append(out, msg)
         /\ raised' = NoError
    ELSE /\ out' = out
         /\ raised' = <<site, "ConnectionClosed">>

(* Client.send *)
Client_send(msg, site) == send_bytes(msg, site)

---------------------------------------------------------------------------
(* The handlers *)
expected_types(h) ==
    CASE h = "ConnectHandler" -> {"CONNECT"}
      [] h = "LoginResultHandler" -> {"LOGINRESULT"}
      [] OTHER -> {}

GameHandlers ==
    [t \in {"ADDENTITY", "REMOVEENTITY", "UPDATESTATE", "ASSIGNCONTROL",
            "ENTITYDEATH", "COMBATHIT"} |->
        CASE t = "ADDENTITY" -> "handle_add"
          [] t = "REMOVEENTITY" -> "handle_remove"
          [] t = "UPDATESTATE" -> "handle_update"
          [] t = "ASSIGNCONTROL" -> "handle_assign_control"
          [] t = "ENTITYDEATH" -> "handle_entity_death"
          [] t = "COMBATHIT" -> "handle_combat_hit"]

(* Mutant: the gameplay table sits on the base class, so every state has it *)
handlers_OnBaseClass(h) == GameHandlers

handlers(h) == IF h = "GameHandler" THEN GameHandlers ELSE <<>>

(* Mutant: the LOGIN is sent but the LoginResultHandler is not installed *)
ConnectHandler_handle_KeepsHandler(msg) ==
    LET c == msg.body IN
    IF c.version # version
    THEN /\ log' = {"Version strings do not match"}
         /\ raised' = <<"ConnectHandler.handle", "AttributeError">>
         /\ UNCHANGED <<started, conn, handler, connected, out, direction, store>>
    ELSE /\ Client_send(login(PlayerName), "ConnectHandler.handle")
         /\ log' = {}
         /\ UNCHANGED <<started, conn, handler, connected, direction, store>>

ConnectHandler_handle(msg) ==
    LET c == msg.body IN
    IF c.version # version
    THEN \* client.close(): Client has no attribute close
         /\ log' = {"Version strings do not match"}
         /\ raised' = <<"ConnectHandler.handle", "AttributeError">>
         /\ UNCHANGED <<started, conn, handler, connected, out, direction, store>>
    ELSE /\ handler' = "LoginResultHandler"
         /\ Client_send(login(PlayerName), "ConnectHandler.handle")
         /\ log' = {}
         /\ UNCHANGED <<started, conn, connected, direction, store>>

(* Mutant: a failed login is reported and the handler then falls through *)
LoginResultHandler_handle_FallsThrough(msg) ==
    /\ handler' = "GameHandler"
    /\ connected' = TRUE
    /\ log' = IF msg.body.succeeded THEN {"Connection established"}
              ELSE {"Login failed", "Connection established"}
    /\ raised' = NoError
    /\ UNCHANGED <<started, conn, out, direction, store>>

(* Mutant: a failed login starts the handshake again *)
LoginResultHandler_handle_Retries(msg) ==
    LET login_result == msg.body IN
    IF ~login_result.succeeded
    THEN /\ handler' = "ConnectHandler"
         /\ Client_send(connect(version), "LoginResultHandler.handle")
         /\ log' = {}
         /\ UNCHANGED <<started, conn, connected, direction, store>>
    ELSE /\ handler' = "GameHandler"
         /\ connected' = TRUE
         /\ log' = {"Connection established"}
         /\ raised' = NoError
         /\ UNCHANGED <<started, conn, out, direction, store>>

LoginResultHandler_handle(msg) ==
    LET login_result == msg.body IN
    IF ~login_result.succeeded
    THEN \* LOGIN_FAILS is not defined: NameError before anything is written
         /\ raised' = <<"LoginResultHandler.handle", "NameError">>
         /\ log' = {}
         /\ UNCHANGED <<started, conn, handler, connected, out, direction, store>>
    ELSE /\ handler' = "GameHandler"
         /\ connected' = TRUE
         /\ log' = {"Connection established"}
         /\ raised' = NoError
         /\ UNCHANGED <<started, conn, out, direction, store>>

(* Mutant: the name of the message is not passed on *)
handle_add_DropsName(add) ==
    Game_add_entity(add.id, None)

handle_add(add) ==
    Game_add_entity(add.id, IF add.name # "" THEN add.name ELSE None)

handle_remove(remove) ==
    Game_remove_entity(remove.id, IF remove.name # "" THEN remove.name ELSE None)

handle_update(update) ==
    Game_update_entity(update.id, update.state_id, unwrap_state(update.value))

handle_assign_control(assign_control) ==
    Game_assign_control(assign_control.uid, assign_control.revoked)

handle_entity_death(entity_death) ==
    Game_entity_death(entity_death.uid, entity_death.name,
                      entity_death.killer_uid, entity_death.killer_name)

handle_combat_hit(combat_hit) ==
    Game_combat_hit(combat_hit.attacker_uid, combat_hit.attacker_name,
                    combat_hit.victim_uid, combat_hit.victim_name,
                    combat_hit.damage)

Handler_unexpected(msg) ==
    /\ log' = {"Unexpected message"}
    /\ raised' = NoError
    /\ UNCHANGED <<session, direction, store>>

(* Mutant: the expected types are looked at before the mapping *)
Handler_route_ExpectedFirst(hs, et, t) ==
    IF t \in et THEN <<"expected", "handle", "message">>
    ELSE IF t \in DOMAIN hs THEN <<"handlers", hs[t], "payload">>
    ELSE <<"unexpected", "unexpected", "message">>

(* Handler.handle_msg: which function is called, and with what: the method *)
(* the mapping gives with unwrap(msg), self.handle with msg, or            *)
(* self.unexpected with msg.                                               *)
Handler_route(hs, et, t) ==
    IF t \in DOMAIN hs THEN <<"handlers", hs[t], "payload">>
    ELSE IF t \in et THEN <<"expected", "handle", "message">>
    ELSE <<"unexpected", "unexpected", "message">>

Handler_handle_msg(msg) ==
    LET route == Handler_route(handlers(handler), expected_types(handler), msg.type) IN
    IF route[1] = "handlers"
    THEN /\ LET h == route[2]
                m == unwrap(msg)
            IN CASE h = "handle_add" -> handle_add(m)
                 [] h = "handle_remove" -> handle_remove(m)
                 [] h = "handle_update" -> handle_update(m)
                 [] h = "handle_assign_control" -> handle_assign_control(m)
                 [] h = "handle_entity_death" -> handle_entity_death(m)
                 [] h = "handle_combat_hit" -> handle_combat_hit(m)
         /\ raised' = NoError
         /\ UNCHANGED <<session, direction>>
    ELSE IF route[1] = "expected"
    THEN CASE handler = "ConnectHandler" -> ConnectHandler_handle(msg)
           [] handler = "LoginResultHandler" -> LoginResultHandler_handle(msg)
    ELSE Handler_unexpected(msg)

---------------------------------------------------------------------------
(* Client *)
(* Mutant: the CONNECT is sent but no handler is installed *)
Client_run_NoHandler ==
    /\ ~started
    /\ conn = "open"
    /\ started' = TRUE
    /\ Client_send(connect(version), "connect")
    /\ log' = {}
    /\ UNCHANGED <<conn, handler, connected, direction, store, call>>

Client_run ==
    /\ ~started
    /\ conn = "open"
    /\ started' = TRUE
    /\ handler' = "ConnectHandler"
    /\ Client_send(connect(version), "connect")
    /\ log' = {}
    /\ UNCHANGED <<conn, connected, direction, store, call>>

(* Mutant: the pending direction is sent but not reset *)
Client_update_NoReset ==
    /\ started
    /\ IF len_squared(direction) > 0
       THEN Client_send(move(direction), "update")
       ELSE /\ raised' = NoError
            /\ out' = out
    /\ log' = {}
    /\ UNCHANGED <<started, conn, handler, connected, direction, store, call>>

(* Mutant: the direction is sent every frame, zero or not *)
Client_update_AlwaysSends ==
    /\ started
    /\ Client_send(move(direction), "update")
    /\ direction' = IF conn = "open" THEN Vector0 ELSE direction
    /\ log' = {}
    /\ UNCHANGED <<started, conn, handler, connected, store, call>>

Client_update ==
    /\ started
    /\ IF len_squared(direction) > 0
       THEN /\ Client_send(move(direction), "update")
            /\ direction' = IF conn = "open" THEN Vector0 ELSE direction
       ELSE /\ raised' = NoError
            /\ UNCHANGED <<out, direction>>
    /\ log' = {}
    /\ UNCHANGED <<started, conn, handler, connected, store, call>>

Client_handle(msg) ==
    /\ started
    /\ call' = call
    /\ IF handler # None
       THEN Handler_handle_msg(msg)
       ELSE /\ log' = {"No handler for message, ignoring"}
            /\ raised' = NoError
            /\ UNCHANGED <<session, direction, store>>

(* Mutant: the connection is closed before the DISCONNECT is sent *)
Client_disconnect_ClosesFirst ==
    /\ started
    /\ handler' = None
    /\ conn' = IF conn = "open" THEN "closed" ELSE conn
    /\ out' = out
    /\ raised' = <<"disconnect", "ConnectionClosed">>
    /\ log' = {}
    /\ UNCHANGED <<started, connected, direction, store, call>>

(* Mutant: disconnect resets connected *)
Client_disconnect_ClearsConnected ==
    /\ started
    /\ handler' = None
    /\ Client_send(disconnect(QUIT, "Client disconnected"), "disconnect")
    /\ conn' = IF conn = "open" THEN "closed" ELSE conn
    /\ connected' = FALSE
    /\ log' = {}
    /\ UNCHANGED <<started, direction, store, call>>

(* Mutant: the connection is not closed *)
Client_disconnect_NoClose ==
    /\ started
    /\ handler' = None
    /\ Client_send(disconnect(QUIT, "Client disconnected"), "disconnect")
    /\ log' = {}
    /\ UNCHANGED <<started, conn, connected, direction, store, call>>

Client_disconnect ==
    /\ started
    /\ handler' = None
    /\ Client_send(disconnect(QUIT, "Client disconnected"), "disconnect")
    /\ conn' = IF conn = "open" THEN "closed" ELSE conn
    /\ log' = {}
    /\ UNCHANGED <<started, connected, direction, store, call>>

(* The startup layer gives the client its connection before run() *)
Attach ==
    /\ conn = "none"
    /\ conn' = "open"
    /\ UNCHANGED <<started, handler, connected, out, direction, store, log,
                   raised, call>>

---------------------------------------------------------------------------
Init ==
    /\ started = FALSE
    /\ conn = "none"
    /\ handler = None
    /\ connected = FALSE
    /\ out = <<>>
    /\ direction = Vector0
    /\ entities = <<>>
    /\ player = {}
    /\ kills = 0
    /\ log = {}
    /\ raised = NoError
    /\ call = NoCall

Next ==
    \/ Attach
    \/ Client_run
    \/ Client_update
    \/ \E msg \in InMsgs : Client_handle(msg)
    \/ Client_disconnect
    \/ \E d \in Dirs : Game_move(d[1], d[2])

Spec == Init /\ [][Next]_vars

---------------------------------------------------------------------------
(* Handler.handle_msg taken alone, for any handler class: its mapping is   *)
(* any function from some message types to methods, its expected types any *)
(* set of message types.                                                   *)
DispatchTypes == {"CONNECT", "LOGINRESULT", "ADDENTITY"}
DispatchMethods == {"handle_add", "handle_remove"}
DispatchCalls ==
    {[handlers |-> hs, expected_types |-> et, type |-> t, route |-> Pending] :
        hs \in UNION {[D -> DispatchMethods] : D \in SUBSET DispatchTypes},
        et \in SUBSET DispatchTypes,
        t \in DispatchTypes}

InitDispatch ==
    /\ started = FALSE
    /\ conn = "none"
    /\ handler = None
    /\ connected = FALSE
    /\ out = <<>>
    /\ direction = Vector0
    /\ entities = <<>>
    /\ player = {}
    /\ kills = 0
    /\ log = {}
    /\ raised = NoError
    /\ call \in DispatchCalls

HandleMsgCall ==
    /\ call.route = Pending
    /\ call' = [call EXCEPT
                  !.route = Handler_route(call.handlers, call.expected_types,
                                          call.type)]
    /\ UNCHANGED <<session, direction, store, log, raised>>

NextDispatch == HandleMsgCall

SpecDispatch == InitDispatch /\ [][NextDispatch]_vars

---------------------------------------------------------------------------
(* Vocabulary of the properties *)
Types(o) == {o[i].type : i \in 1..Len(o)}
Count(o, t) == Cardinality({i \in 1..Len(o) : o[i].type = t})

Connecting == started /\ handler = "ConnectHandler"
LoggingIn == started /\ handler = "LoginResultHandler"
InGame == started /\ handler = "GameHandler"
Disconnected == started /\ handler = None

MismatchedConnects == {m \in InMsgs : m.type = "CONNECT" /\ m.body.version # version}
MatchingConnects == {m \in InMsgs : m.type = "CONNECT" /\ m.body.version = version}
FailedLogins == {m \in InMsgs : m.type = "LOGINRESULT" /\ ~m.body.succeeded}
GoodLogins == {m \in InMsgs : m.type = "LOGINRESULT" /\ m.body.succeeded}
AddMsgs == {m \in InMsgs : m.type = "ADDENTITY"}
RemoveMsgs == {m \in InMsgs : m.type = "REMOVEENTITY"}
UpdateMsgs == {m \in InMsgs : m.type = "UPDATESTATE"}

---------------------------------------------------------------------------
(* C1: handling a CONNECT reply of another version while Connecting ends   *)
(* the session in Disconnected (no handler, connection closed) and sends   *)
(* no LOGIN.  The code raises AttributeError at client.close() and stays   *)
(* in Connecting with the connection open.                                 *)
C1_MismatchDisconnects ==
    [][\A m \in MismatchedConnects :
         (Connecting /\ Client_handle(m)) =>
            /\ handler' = None
            /\ conn' = "closed"
            /\ "LOGIN" \notin Types(out')]_vars

(* C2: handling a failed LOGINRESULT while LoggingIn leaves connected      *)
(* false, ends the session in Disconnected and does not install the        *)
(* GameHandler.  The code raises NameError (LOGIN_FAILS) and stays in      *)
(* LoggingIn with the connection open.                                     *)
C2_LoginFailureDisconnects ==
    [][\A m \in FailedLogins :
         (LoggingIn /\ Client_handle(m)) =>
            /\ connected' = FALSE
            /\ handler' = None
            /\ conn' = "closed"]_vars

---------------------------------------------------------------------------
(* C3 as stated: handling a matching CONNECT reply while Connecting leaves *)
(* exactly CONNECT, LOGIN on the transport (nothing between them) and      *)
(* installs the LoginResultHandler.                                        *)
C3_LoginDirectlyAfterConnect ==
    [][\A m \in MatchingConnects :
         (Connecting /\ Client_handle(m)) =>
            /\ out' = <<connect(version), login(PlayerName)>>
            /\ handler' = "LoginResultHandler"]_vars

(* C3 amended: handling a matching CONNECT reply while Connecting writes   *)
(* exactly one LOGIN carrying the player name, as the next message on the  *)
(* transport; it is the only LOGIN, the first message written is the       *)
(* initial CONNECT, only movement messages flushed by ticks lie between    *)
(* the two, and the LoginResultHandler becomes the active handler.         *)
C3_LoginAfterConnect ==
    [][\A m \in MatchingConnects :
         (Connecting /\ Client_handle(m)) =>
            /\ out' = Append(out, login(PlayerName))
            /\ Count(out', "LOGIN") = 1
            /\ out'[1] = connect(version)
            /\ \A i \in 2..Len(out) : out[i].type = "MOVE"
            /\ handler' = "LoginResultHandler"]_vars

C3_Witness ==
    /\ LoggingIn
    /\ Len(out) = 3
    /\ out[1] = connect(version)
    /\ out[2].type = "MOVE"
    /\ out[3] = login(PlayerName)

---------------------------------------------------------------------------
(* C4: handling a successful LOGINRESULT while LoggingIn sets connected    *)
(* and installs the GameHandler; connected is false initially and becomes  *)
(* true by no other step.                                                  *)
C4_ConnectedOnlyOnLoginSuccess ==
    /\ connected = FALSE
    /\ [][/\ \A m \in GoodLogins :
               (LoggingIn /\ Client_handle(m)) =>
                   (connected' = TRUE /\ handler' = "GameHandler")
          /\ (connected' /\ ~connected) =>
               (LoggingIn /\ \E m \in GoodLogins : Client_handle(m))]_vars

C4_Witness ==
    /\ InGame
    /\ connected
    /\ log = {"Connection established"}

---------------------------------------------------------------------------
(* C5: every disconnect, the second of two in sequence included, returns   *)
(* without raising, leaves the session Disconnected with the connection    *)
(* closed, and at most one DISCONNECT has been written in total.  The      *)
(* second call writes to the closed connection.                            *)
C5_DisconnectIdempotent ==
    [][Client_disconnect =>
          /\ raised' = NoError
          /\ handler' = None
          /\ conn' = "closed"
          /\ Count(out', "DISCONNECT") <= 1]_vars

---------------------------------------------------------------------------
(* C6: once Disconnected, no step writes to the transport or changes the   *)
(* session: a tick with a pending direction writes no movement message,    *)
(* and an inbound message is ignored.                                      *)
C6_DisconnectedIsTerminal ==
    [][Disconnected =>
          /\ out' = out
          /\ handler' = handler
          /\ conn' = "closed"
          /\ connected' = connected
          /\ store' = store]_vars

C6_Witness ==
    /\ Disconnected
    /\ len_squared(direction) > 0
    /\ raised = <<"update", "ConnectionClosed">>
    /\ Count(out, "MOVE") = 0

---------------------------------------------------------------------------
(* C7: the session starts in Connecting and only moves forward:            *)
(* Connecting -> LoggingIn on a matching CONNECT reply, LoggingIn ->       *)
(* InGame on a successful LOGINRESULT, any state -> Disconnected; it never *)
(* goes back and never leaves Disconnected.                                *)
Stage ==
    CASE ~started -> 0
      [] Connecting -> 1
      [] LoggingIn -> 2
      [] InGame -> 3
      [] Disconnected -> 4

C7_ForwardOnly ==
    [][/\ Client_run => Stage' = 1
       /\ started =>
            /\ Stage' \in {Stage, Stage + 1, 4}
            /\ Stage = 4 => Stage' = 4
            /\ (Stage = 1 /\ Stage' = 2) =>
                  \E m \in MatchingConnects : Client_handle(m)
            /\ (Stage = 2 /\ Stage' = 3) =>
                  \E m \in GoodLogins : Client_handle(m)
            /\ (Stage < 4 /\ Stage' = 4) => Client_disconnect]_vars

C7_Witness ==
    /\ Disconnected
    /\ connected
    /\ Types(out) = {"CONNECT", "LOGIN", "DISCONNECT"}

---------------------------------------------------------------------------
(* C8: a message whose type the current state does not expect (anything    *)
(* but CONNECT while Connecting, anything but LOGINRESULT while LoggingIn, *)
(* anything but the six gameplay types while InGame) is not fatal and      *)
(* leaves the handler, connected, the entity store and the outbound        *)
(* messages unchanged.                                                     *)
Recognized(h) ==
    CASE h = "ConnectHandler" -> {"CONNECT"}
      [] h = "LoginResultHandler" -> {"LOGINRESULT"}
      [] h = "GameHandler" -> {"ADDENTITY", "REMOVEENTITY", "UPDATESTATE",
                               "ASSIGNCONTROL", "ENTITYDEATH", "COMBATHIT"}

C8_UnexpectedIsNoOp ==
    [][\A m \in InMsgs :
         (/\ started
          /\ handler # None
          /\ m.type \notin Recognized(handler)
          /\ Client_handle(m)) =>
            /\ raised' = NoError
            /\ handler' = handler
            /\ connected' = connected
            /\ store' = store
            /\ out' = out]_vars

C8_Witness ==
    /\ LoggingIn
    /\ log = {"Unexpected message"}

---------------------------------------------------------------------------
(* C9: in InGame each message is dispatched within the step that handles   *)
(* it: an ADDENTITY(id, name) makes id tracked as a fresh entity of that   *)
(* name (None when the name is absent); a following UPDATESTATE(id, key,   *)
(* value) sets state key of that entity to the decoded value and nothing   *)
(* else, so that after ADDENTITY, UPDATESTATE the store tracks id with     *)
(* key = value.                                                            *)
C9_AddThenUpdate ==
    [][InGame =>
         /\ \A m \in AddMsgs :
              Client_handle(m) =>
                 /\ DOMAIN entities' = DOMAIN entities \cup {m.body.id}
                 /\ entities'[m.body.id].id = m.body.id
                 /\ entities'[m.body.id].name =
                       (IF m.body.name = "" THEN None ELSE m.body.name)
                 /\ DOMAIN entities'[m.body.id].states = {}
                 /\ \A i \in DOMAIN entities \ {m.body.id} :
                       entities'[i] = entities[i]
                 /\ player' = player /\ kills' = kills
         /\ \A m \in UpdateMsgs :
              (m.body.id \in DOMAIN entities /\ Client_handle(m)) =>
                 /\ DOMAIN entities' = DOMAIN entities
                 /\ entities'[m.body.id].name = entities[m.body.id].name
                 /\ DOMAIN entities'[m.body.id].states =
                       DOMAIN entities[m.body.id].states \cup {m.body.state_id}
                 /\ entities'[m.body.id].states[m.body.state_id] =
                       m.body.value.value
                 /\ \A k \in DOMAIN entities[m.body.id].states \ {m.body.state_id} :
                       entities'[m.body.id].states[k] = entities[m.body.id].states[k]
                 /\ \A i \in DOMAIN entities \ {m.body.id} :
                       entities'[i] = entities[i]
                 /\ player' = player /\ kills' = kills]_vars

C9_Witness ==
    /\ InGame
    /\ DOMAIN entities = {7}
    /\ entities[7].name = "orc"
    /\ DOMAIN entities[7].states = {"Health"}
    /\ entities[7].states["Health"] = 5

---------------------------------------------------------------------------
(* C10: in InGame a REMOVEENTITY or UPDATESTATE for an id that is not      *)
(* tracked leaves the store unchanged, raises nothing and leaves the       *)
(* session in InGame.                                                      *)
C10_UntrackedIsNoOp ==
    [][\A m \in InMsgs :
         (/\ InGame
          /\ m.type \in {"REMOVEENTITY", "UPDATESTATE"}
          /\ m.body.id \notin DOMAIN entities
          /\ Client_handle(m)) =>
            /\ store' = store
            /\ raised' = NoError
            /\ handler' = "GameHandler"]_vars

C10_Witness ==
    /\ InGame
    /\ DOMAIN entities = {8}
    /\ DOMAIN entities[8].states = {"Health"}
    /\ log \in {{"removed without being added"}, {"updated without being added"}}

---------------------------------------------------------------------------
(* C11 as stated: every tick with a pending direction writes one movement  *)
(* message carrying it and resets the direction; a tick with no pending    *)
(* direction writes nothing and leaves it zero.                            *)
C11_TickAlwaysFlushes ==
    [][Client_update =>
          IF len_squared(direction) > 0
          THEN out' = Append(out, move(direction)) /\ direction' = Vector0
          ELSE out' = out /\ direction' = Vector0]_vars

(* C11 amended: while the connection is open, a tick with a pending        *)
(* direction writes exactly one movement message carrying it and resets    *)
(* the direction; a tick with no pending direction writes nothing and      *)
(* leaves it zero; once the connection is closed a tick writes nothing and *)
(* the direction stays pending.  A movement message is written by no other *)
(* step, so a direction set once is sent at most once.                     *)
C11_TickFlushesWhileOpen ==
    [][/\ Client_update =>
            IF len_squared(direction) > 0
            THEN IF conn = "open"
                 THEN /\ out' = Append(out, move(direction))
                      /\ direction' = Vector0
                 ELSE /\ out' = out
                      /\ direction' = direction
            ELSE out' = out /\ direction' = Vector0
       /\ Count(out', "MOVE") # Count(out, "MOVE") =>
            /\ Client_update
            /\ Count(out', "MOVE") = Count(out, "MOVE") + 1
            /\ direction' = Vector0]_vars

C11_Witness ==
    /\ InGame
    /\ Len(out) = 3
    /\ out[3] = move(<<1, 1>>)
    /\ direction = Vector0

---------------------------------------------------------------------------
(* C12 as stated: no movement message is on the transport while the        *)
(* session is in Connecting or LoggingIn.                                  *)
C12_NoMoveBeforeInGame ==
    (Connecting \/ LoggingIn) => Count(out, "MOVE") = 0

(* C12 amended: the per-tick flush runs in every session state: in         *)
(* Connecting and LoggingIn, as in InGame, a movement message is written   *)
(* exactly by a tick whose pending direction, set by presentation-layer    *)
(* input, is not zero; as long as no input has set a direction, no         *)
(* movement message is written.                                            *)
C12_MoveOnlyOnPendingDirection ==
    [][(Connecting \/ LoggingIn) =>
          /\ (Client_update /\ len_squared(direction) > 0) =>
                out' = Append(out, move(direction))
          /\ out' # out /\ out'[Len(out')].type = "MOVE" =>
                /\ Client_update
                /\ len_squared(direction) > 0
                /\ direction \in Dirs]_vars

C12_Witness ==
    /\ LoggingIn
    /\ Len(out) = 3
    /\ out[3].type = "MOVE"

---------------------------------------------------------------------------
(* C13: a disconnect in Connecting, LoggingIn or InGame writes one         *)
(* DISCONNECT with reason QUIT while the connection is still open, then    *)
(* closes it and leaves no active handler; a message handled afterwards is *)
(* ignored.                                                                *)
C13_DisconnectSendsThenCloses ==
    [][/\ (Stage \in {1, 2, 3} /\ Client_disconnect) =>
            /\ conn = "open"
            /\ out' = Append(out, disconnect(QUIT, "Client disconnected"))
            /\ raised' = NoError
            /\ handler' = None
            /\ conn' = "closed"
       /\ \A m \in InMsgs :
            (Disconnected /\ Client_handle(m)) =>
                /\ log' = {"No handler for message, ignoring"}
                /\ session' = session
                /\ store' = store
                /\ direction' = direction]_vars

C13_Witness ==
    /\ Disconnected
    /\ conn = "closed"
    /\ out[Len(out)].body.reason = QUIT
    /\ log = {"No handler for message, ignoring"}

---------------------------------------------------------------------------
(* C14: the entity store is notified only in InGame, and InGame is entered *)
(* only after a matching CONNECT reply (the one LOGIN has been sent) and a *)
(* successful LOGINRESULT (connected is set); in Connecting, in LoggingIn  *)
(* (also after a failed login) and after a disconnect, no message reaches  *)
(* the store.                                                              *)
StoreLines ==
    {"added twice", "removed without being added", "updated without being added"}

---------------------------------------------------------------------------
(* C16: Client.run writes CONNECT carrying the client's version as the     *)
(* first message on the transport and leaves the ConnectHandler installed, *)
(* so that a CONNECT reply handled while still Connecting is given to the  *)
(* handshake logic and not ignored.                                        *)
C16_ConnectFirstWithHandler ==
    [][/\ Client_run =>
            /\ out' = <<connect(version)>>
            /\ handler' = "ConnectHandler"
       /\ Len(out') >= 1 => out'[1] = connect(version)
       /\ \A m \in MatchingConnects \cup MismatchedConnects :
            (started /\ conn = "open" /\ Client_handle(m)
               /\ Types(out) \subseteq {"CONNECT", "MOVE"}) =>
                /\ "No handler for message, ignoring" \notin log'
                /\ "Unexpected message" \notin log'
                /\ \/ handler' = "LoginResultHandler"
                   \/ "Version strings do not match" \in log']_vars

C16_Witness ==
    /\ Connecting
    /\ out = <<connect(version)>>
    /\ log = {"Version strings do not match"}

---------------------------------------------------------------------------
(* C17: handling ASSIGNCONTROL(uid, revoked) in InGame leaves the          *)
(* controlled entity equal to uid when revoked is false and none when it   *)
(* is true, whatever it was and whether or not uid is tracked; no other    *)
(* step changes it.                                                        *)
C17_AssignControl ==
    [][/\ \A m \in InMsgs :
            (InGame /\ m.type = "ASSIGNCONTROL" /\ Client_handle(m)) =>
                player' = (IF m.body.revoked THEN {} ELSE {m.body.uid})
       /\ player' # player =>
            (InGame /\ \E m \in InMsgs :
                          m.type = "ASSIGNCONTROL" /\ Client_handle(m))]_vars

C17_Witness ==
    /\ InGame
    /\ player = {8}
    /\ DOMAIN entities = {7}

---------------------------------------------------------------------------
(* C18: handling ENTITYDEATH in InGame adds one to the kill counter        *)
(* exactly when the killer id is the controlled entity's id and leaves it  *)
(* otherwise; nothing is counted while no entity is controlled, no other   *)
(* step changes the counter and it never decreases.                        *)
C18_KillAttribution ==
    [][/\ \A m \in InMsgs :
            (InGame /\ m.type = "ENTITYDEATH" /\ Client_handle(m)) =>
                kills' = (IF player = {m.body.killer_uid}
                          THEN kills + 1 ELSE kills)
       /\ kills' >= kills
       /\ kills' # kills =>
            /\ player # {}
            /\ InGame
            /\ \E m \in InMsgs :
                  /\ m.type = "ENTITYDEATH"
                  /\ player = {m.body.killer_uid}
                  /\ Client_handle(m)]_vars

C18_Witness ==
    /\ InGame
    /\ kills = 1
    /\ player = {}

---------------------------------------------------------------------------
(* C19: an ADDENTITY for a tracked id replaces its entity by a fresh one   *)
(* (no state left) and leaves the set of tracked ids as it was; the        *)
(* tracked ids grow by the id of each ADDENTITY, shrink by the id of each  *)
(* REMOVEENTITY and change by no other step.                               *)
C19_AddReplaces ==
    [][/\ InGame =>
            /\ \A m \in AddMsgs :
                 Client_handle(m) =>
                    /\ DOMAIN entities' = DOMAIN entities \cup {m.body.id}
                    /\ m.body.id \in DOMAIN entities =>
                          /\ raised' = NoError
                          /\ DOMAIN entities' = DOMAIN entities
                          /\ entities'[m.body.id] =
                                [id |-> m.body.id,
                                 name |-> IF m.body.name = "" THEN None
                                          ELSE m.body.name,
                                 states |-> <<>>]
            /\ \A m \in RemoveMsgs :
                 Client_handle(m) =>
                    DOMAIN entities' = DOMAIN entities \ {m.body.id}
       /\ DOMAIN entities' # DOMAIN entities =>
            (InGame /\ \E m \in AddMsgs \cup RemoveMsgs : Client_handle(m))]_vars

C19_Witness ==
    /\ InGame
    /\ log = {"added twice"}
    /\ DOMAIN entities = {7, 8}
    /\ DOMAIN entities[7].states = {}
    /\ DOMAIN entities[8].states = {"Health"}

---------------------------------------------------------------------------
(* C20: connected, once true, stays true; a disconnect from InGame leaves  *)
(* no active handler and a closed connection while connected is still      *)
(* true.                                                                   *)
C20_ConnectedMonotone ==
    [][/\ connected => connected'
       /\ (InGame /\ Client_disconnect) =>
            /\ handler' = None
            /\ conn' = "closed"
            /\ connected' = TRUE]_vars

C20_Witness ==
    /\ Disconnected
    /\ conn = "closed"
    /\ connected
    /\ raised = NoError
    /\ out[Len(out)].type = "DISCONNECT"

---------------------------------------------------------------------------
(* C15: for every handler configuration and message type handle_msg takes  *)
(* exactly one route: the mapped method with the unwrapped payload when    *)
(* the type is a key of the mapping (also when it is an expected type as   *)
(* well); otherwise the raw handler with the full message when the type is *)
(* an expected type; otherwise the unexpected-message path.                *)
C15_DispatchPrecedence ==
    call.route # Pending =>
        LET t == call.type
            mapped == t \in DOMAIN call.handlers
            raw == t \in call.expected_types
        IN /\ call.route[1] \in {"handlers", "expected", "unexpected"}
           /\ call.route[1] = "handlers" <=> mapped
           /\ call.route[1] = "expected" <=> (raw /\ ~mapped)
           /\ call.route[1] = "unexpected" <=> (~raw /\ ~mapped)
           /\ mapped => call.route = <<"handlers", call.handlers[t], "payload">>
           /\ (raw /\ ~mapped) => call.route = <<"expected", "handle", "message">>

C15_Witness ==
    /\ call.type \in DOMAIN call.handlers
    /\ call.type \in call.expected_types
    /\ call.route = <<"handlers", "handle_remove", "payload">>

=============================================================================
